---- MODULE Spec2Model ----
(***************************************************************************)
(* A model of libsignal's ConnectionManager (rust/bridge/shared/types/src/ *)
(* net.rs) and of the fake-transport connector substitution                *)
(* (rust/net/tests/fake_transport/connector/replace.rs).                   *)
(*                                                                         *)
(* Every manager call is made by one of a few threads.  A call is split at *)
(* the points where another thread can run in between: the call itself,    *)
(* every lock acquisition (which blocks while the lock is taken), and the  *)
(* statements executed after a lock has been released.  A statement that   *)
(* takes a lock, uses it and drops it again is one step.                   *)
(*                                                                         *)
(* Time is counted in ticks; there are TicksPerSecond ticks in a second.   *)
(***************************************************************************)
EXTENDS Integers, Sequences, FiniteSets, TLC

\* ---------------------------------------------------------------- bounds
NumThreads == 2
MaxCalls == 3
MaxTime == 5
MaxConstructedAt == 1
TicksPerSecond == 2
NumProxyConfigs == 1
MaxFallbackRoutes == 1
MaxWrappers == 3
MaxScheduledCalls == 2

Threads == 1..NumThreads
Instants == 0..MaxTime
ProxyConfigs == 1..NumProxyConfigs
NoThread == 0
NoInstant == -1
NoArg == [kind |-> "none"]
NoLocal == [kind |-> "none"]
NoRet == [op |-> "none"]
NoArc == 0
NoChain == [kind |-> "none"]
None == 0

\* ------------------------------------------------------------- constants
NETWORK_CHANGE_DEBOUNCE == 1 * TicksPerSecond

VARIABLES
    env,                             \* the Env the manager was built from
    user_agent,                      \* the UserAgent the manager was built with
    transport_connector,             \* TcpSslConnector behind its mutex
    transport_connector_lock,        \* the thread holding that mutex, or NoThread
    most_recent_network_change,      \* the Instant behind the debounce mutex
    most_recent_network_change_lock, \* the thread holding that mutex, or NoThread
    fire_count,                      \* notifications delivered to the subscriber
    connect,                         \* ConnectState behind the tokio RwLock
    connect_readers,                 \* threads holding a read guard of connect
    endpoints,                       \* the Arc behind the endpoints mutex
    arcs,                            \* the EndpointConnections every Arc points to
    pc,                              \* where each thread is
    arg,                             \* the arguments of the call a thread is in, by name
    local,                           \* the local values of that call
    ret,                             \* what the last finished call of a thread returned
    calls,                           \* number of calls made so far
    constructed_at,                  \* Instant::now() at construction
    call_log,                        \* on_network_change calls, in the order of
                                     \* their debounce critical sections
    last_proxy_op,                   \* the proxy operation that ran last
    last_proxy_step,                 \* <<kind before, kind after>> of that operation
    ipv6_calls,                      \* number of set_ipv6_enabled calls made so far
    chain,                           \* a connector chain
    replacement                      \* what replace_with_fake made of it

debounceVars == <<most_recent_network_change, most_recent_network_change_lock>>
tcVars == <<transport_connector, transport_connector_lock>>
connectVars == <<connect, connect_readers>>
epVars == <<endpoints, arcs>>
fixedVars == <<env, user_agent, constructed_at, chain>>
proxyHist == <<last_proxy_op, last_proxy_step>>
histVars == <<call_log, proxyHist, ipv6_calls>>

vars == <<env, user_agent, transport_connector, transport_connector_lock,
          most_recent_network_change, most_recent_network_change_lock, fire_count,
          connect, connect_readers, endpoints, arcs, pc, arg, local, ret, calls,
          constructed_at, call_log, last_proxy_op, last_proxy_step, ipv6_calls,
          chain, replacement>>

\* ------------------------------------------------- Env and EndpointConnections
\* An Env gives, for each service, the number of fallback routes besides the
\* direct one.
Environments ==
    [chat_fallbacks : 0..MaxFallbackRoutes, cdsi_fallbacks : 0..MaxFallbackRoutes]

STAGING == [chat_fallbacks |-> MaxFallbackRoutes, cdsi_fallbacks |-> MaxFallbackRoutes]

UserAgentWithLibsignalVersion(ua) == <<ua, "libsignal">>

\* ConnectionConfig::direct_connection_params
DirectConnectionParams(service) ==
    [service |-> service, route |-> 0, user_agent |-> None]

\* ConnectionConfig::connection_params_with_fallback: direct first, then the
\* fallback routes in order.
ConnectionParamsWithFallback(service, fallbacks) ==
    [i \in 1..(fallbacks + 1) |->
        [service |-> service, route |-> i - 1, user_agent |-> None]]

\* add_user_agent_header
AddUserAgentHeader(params, ua) ==
    [i \in DOMAIN params |-> [params[i] EXCEPT !.user_agent = ua]]

\* EndpointConnections::endpoint_connection
EndpointConnection(service, fallbacks, ua, include_fallback) ==
    LET params == IF include_fallback
                  THEN ConnectionParamsWithFallback(service, fallbacks)
                  ELSE <<DirectConnectionParams(service)>>
    IN  AddUserAgentHeader(params, ua)

\* libsignal_net::chat::endpoint_connection
ChatEndpointConnection(fallbacks, ua, use_fallbacks) ==
    AddUserAgentHeader(
        IF use_fallbacks THEN ConnectionParamsWithFallback("chat", fallbacks)
                         ELSE <<DirectConnectionParams("chat")>>,
        ua)

\* A builder that enables fronting when the fallbacks are off.
EndpointConnections_new_inverted_fronting(e, ua, use_fallbacks) ==
    [chat |-> ChatEndpointConnection(e.chat_fallbacks, ua, use_fallbacks),
     cdsi |-> EndpointConnection("cdsi", e.cdsi_fallbacks, ua, use_fallbacks),
     enable_fronting |-> IF use_fallbacks THEN "No" ELSE "OneDomainPerProxy"]

\* EndpointConnections::new
EndpointConnections_new(e, ua, use_fallbacks) ==
    [chat |-> ChatEndpointConnection(e.chat_fallbacks, ua, use_fallbacks),
     cdsi |-> EndpointConnection("cdsi", e.cdsi_fallbacks, ua, use_fallbacks),
     enable_fronting |-> IF use_fallbacks THEN "OneDomainPerProxy" ELSE "No"]

\* ------------------------------------------------------------ TcpSslConnector
TcpSslConnector_new_direct == [proxy |-> "Direct", config |-> None, ipv6_enabled |-> TRUE]
TcpSslConnector_set_proxy(c, p) == [c EXCEPT !.proxy = "Proxied", !.config = p]
TcpSslConnector_set_invalid(c) == [c EXCEPT !.proxy = "Invalid", !.config = None]
TcpSslConnector_clear_proxy(c) == [c EXCEPT !.proxy = "Direct", !.config = None]
TcpSslConnector_set_ipv6_enabled(c, b) == [c EXCEPT !.ipv6_enabled = b]

\* TcpSslConnector::proxy: Result<Option<proxy>, InvalidProxyConfig>
TcpSslConnector_proxy(c) ==
    IF c.proxy = "Invalid"
    THEN [ok |-> FALSE, value |-> "InvalidProxyConfig"]
    ELSE [ok |-> TRUE, value |-> c.config]

\* A result mapped with is_none instead of is_some.
IsUsingProxy_is_none(c) ==
    LET r == TcpSslConnector_proxy(c)
    IN  IF r.ok THEN [ok |-> TRUE, value |-> r.value = None] ELSE r

\* The value is_using_proxy returns: guard.proxy().map(|proxy| proxy.is_some())
IsUsingProxy(c) ==
    LET r == TcpSslConnector_proxy(c)
    IN  IF r.ok THEN [ok |-> TRUE, value |-> r.value # None] ELSE r

\* ------------------------------------------------------------- debounce
\* Instant::saturating_duration_since: zero when `earlier` is later than `now`.
SaturatingDurationSince(now, earlier) == IF now >= earlier THEN now - earlier ELSE 0

\* A debounce test that also suppresses a call made exactly one interval
\* after the baseline.
Debounced_inclusive(now, most_recent) ==
    SaturatingDurationSince(now, most_recent) <= NETWORK_CHANGE_DEBOUNCE

\* The debounce test of on_network_change.
Debounced(now, most_recent) ==
    SaturatingDurationSince(now, most_recent) < NETWORK_CHANGE_DEBOUNCE

\* ObservableEvent::fire with the one subscriber of the test, which counts.
Fire(count) == count + 1

\* ConnectState::network_changed
NetworkChanged(state, now) == [state EXCEPT !.network_change_clock = now]

\* tokio RwLock::blocking_write returns once nobody holds a guard.
CanWrite == connect_readers = {}

\* ------------------------------------------------------------- construction
\* A construction whose debounce timestamp is the start of the clock and
\* not Instant::now().
InitManager_baseline_at_clock_start(E, C) ==
    /\ env \in E
    /\ user_agent = UserAgentWithLibsignalVersion("test-user-agent")
    /\ constructed_at \in C
    /\ transport_connector = TcpSslConnector_new_direct
    /\ transport_connector_lock = NoThread
    /\ arcs = <<EndpointConnections_new(env, user_agent, FALSE)>>
    /\ endpoints = 1
    /\ connect = [allow_ipv6 |-> TRUE, network_change_clock |-> NoInstant]
    /\ connect_readers = {}
    /\ most_recent_network_change = 0
    /\ most_recent_network_change_lock = NoThread
    /\ fire_count = 0
    /\ pc = [t \in Threads |-> "idle"]
    /\ arg = [t \in Threads |-> NoArg]
    /\ local = [t \in Threads |-> NoLocal]
    /\ ret = [t \in Threads |-> NoRet]
    /\ calls = 0
    /\ call_log = <<>>
    /\ last_proxy_op = "none"
    /\ last_proxy_step = <<"none", "Direct">>
    /\ ipv6_calls = 0

\* ConnectionManager::new_from_static_environment, for an Env of E built at
\* an instant of C.
InitManager(E, C) ==
    /\ env \in E
    /\ user_agent = UserAgentWithLibsignalVersion("test-user-agent")
    /\ constructed_at \in C
    /\ transport_connector = TcpSslConnector_new_direct
    /\ transport_connector_lock = NoThread
    /\ arcs = <<EndpointConnections_new(env, user_agent, FALSE)>>
    /\ endpoints = 1
    /\ connect = [allow_ipv6 |-> TRUE, network_change_clock |-> NoInstant]
    /\ connect_readers = {}
    /\ most_recent_network_change = constructed_at
    /\ most_recent_network_change_lock = NoThread
    /\ fire_count = 0
    /\ pc = [t \in Threads |-> "idle"]
    /\ arg = [t \in Threads |-> NoArg]
    /\ local = [t \in Threads |-> NoLocal]
    /\ ret = [t \in Threads |-> NoRet]
    /\ calls = 0
    /\ call_log = <<>>
    /\ last_proxy_op = "none"
    /\ last_proxy_step = <<"none", "Direct">>
    /\ ipv6_calls = 0

\* No connector chain is under substitution.
NoSubstitution == chain = NoChain /\ replacement = NoChain

Init == InitManager({STAGING}, {0}) /\ NoSubstitution

\* ------------------------------------------------------------- calls
\* Thread t calls an operation with argument a and goes to its first step.
Call(t, first, a, l) ==
    /\ pc[t] = "idle"
    /\ calls < MaxCalls
    /\ calls' = calls + 1
    /\ pc' = [pc EXCEPT ![t] = first]
    /\ arg' = [arg EXCEPT ![t] = a]
    /\ local' = [local EXCEPT ![t] = l]
    /\ ret' = [ret EXCEPT ![t] = NoRet]
    /\ UNCHANGED <<tcVars, debounceVars, fire_count, connectVars, epVars, fixedVars,
                   call_log, proxyHist, replacement>>

\* Thread t returns r from its call.
Return(t, r) ==
    /\ pc' = [pc EXCEPT ![t] = "idle"]
    /\ arg' = [arg EXCEPT ![t] = NoArg]
    /\ local' = [local EXCEPT ![t] = NoLocal]
    /\ ret' = [ret EXCEPT ![t] = r]

\* self.transport_connector.lock()
LockTransportConnector(t, from, to) ==
    /\ pc[t] = from
    /\ transport_connector_lock = NoThread
    /\ transport_connector_lock' = t
    /\ pc' = [pc EXCEPT ![t] = to]
    /\ UNCHANGED <<transport_connector, debounceVars, fire_count, connectVars, epVars,
                   fixedVars, arg, local, ret, calls, histVars, replacement>>

\* The statement of a proxy operation that runs under the guard, which is
\* dropped when the operation returns.
ProxyBody(t, at, op, connector, r) ==
    /\ pc[t] = at
    /\ transport_connector_lock = t
    /\ transport_connector' = connector
    /\ transport_connector_lock' = NoThread
    /\ last_proxy_op' = op
    /\ last_proxy_step' = <<transport_connector.proxy, connector.proxy>>
    /\ Return(t, r)
    /\ UNCHANGED <<debounceVars, fire_count, connectVars, epVars, fixedVars, calls,
                   call_log, ipv6_calls, replacement>>

\* ------------------------------------------------------------- set_proxy
Call_set_proxy(t, proxy) ==
    Call(t, "set_proxy_lock", [proxy |-> proxy], NoLocal) /\ UNCHANGED ipv6_calls
set_proxy_lock(t) == LockTransportConnector(t, "set_proxy_lock", "set_proxy_body")
set_proxy_body(t) ==
    ProxyBody(t, "set_proxy_body", "set_proxy",
              TcpSslConnector_set_proxy(transport_connector, arg[t].proxy),
              NoRet)

set_proxy(t) ==
    \/ \E proxy \in ProxyConfigs : Call_set_proxy(t, proxy)
    \/ set_proxy_lock(t)
    \/ set_proxy_body(t)

\* ------------------------------------------------------------- set_invalid_proxy
Call_set_invalid_proxy(t) == Call(t, "set_invalid_proxy_lock", NoArg, NoLocal) /\ UNCHANGED ipv6_calls
set_invalid_proxy_lock(t) ==
    LockTransportConnector(t, "set_invalid_proxy_lock", "set_invalid_proxy_body")
\* A body that calls clear_proxy on the guard.
set_invalid_proxy_body_clears(t) ==
    ProxyBody(t, "set_invalid_proxy_body", "set_invalid_proxy",
              TcpSslConnector_clear_proxy(transport_connector),
              NoRet)

set_invalid_proxy_body(t) ==
    ProxyBody(t, "set_invalid_proxy_body", "set_invalid_proxy",
              TcpSslConnector_set_invalid(transport_connector),
              NoRet)

set_invalid_proxy(t) ==
    \/ Call_set_invalid_proxy(t)
    \/ set_invalid_proxy_lock(t)
    \/ set_invalid_proxy_body(t)

\* ------------------------------------------------------------- clear_proxy
Call_clear_proxy(t) == Call(t, "clear_proxy_lock", NoArg, NoLocal) /\ UNCHANGED ipv6_calls
clear_proxy_lock(t) == LockTransportConnector(t, "clear_proxy_lock", "clear_proxy_body")
clear_proxy_body(t) ==
    ProxyBody(t, "clear_proxy_body", "clear_proxy",
              TcpSslConnector_clear_proxy(transport_connector),
              NoRet)

clear_proxy(t) ==
    \/ Call_clear_proxy(t)
    \/ clear_proxy_lock(t)
    \/ clear_proxy_body(t)

\* ------------------------------------------------------------- is_using_proxy
Call_is_using_proxy(t) == Call(t, "is_using_proxy_lock", NoArg, NoLocal) /\ UNCHANGED ipv6_calls
is_using_proxy_lock(t) ==
    LockTransportConnector(t, "is_using_proxy_lock", "is_using_proxy_body")
\* The result is returned with the proxy operation it came after.
is_using_proxy_body(t) ==
    /\ pc[t] = "is_using_proxy_body"
    /\ transport_connector_lock = t
    /\ transport_connector_lock' = NoThread
    /\ Return(t, [op |-> "is_using_proxy",
                  result |-> IsUsingProxy(transport_connector),
                  after |-> last_proxy_op])
    /\ UNCHANGED <<transport_connector, debounceVars, fire_count, connectVars, epVars,
                   fixedVars, calls, histVars, replacement>>

is_using_proxy(t) ==
    \/ Call_is_using_proxy(t)
    \/ is_using_proxy_lock(t)
    \/ is_using_proxy_body(t)

\* ------------------------------------------------------------- set_ipv6_enabled
Call_set_ipv6_enabled(t, ipv6_enabled) ==
    /\ Call(t, "ipv6_lock", [ipv6_enabled |-> ipv6_enabled], NoLocal)
    /\ ipv6_calls' = ipv6_calls + 1
ipv6_lock(t) == LockTransportConnector(t, "ipv6_lock", "ipv6_set")
\* A first write that builds a fresh direct connector with the flag.
ipv6_set_fresh_connector(t) ==
    /\ pc[t] = "ipv6_set"
    /\ transport_connector_lock = t
    /\ transport_connector' =
          TcpSslConnector_set_ipv6_enabled(TcpSslConnector_new_direct, arg[t].ipv6_enabled)
    /\ pc' = [pc EXCEPT ![t] = "ipv6_write"]
    /\ UNCHANGED <<transport_connector_lock, debounceVars, fire_count, connectVars,
                   epVars, fixedVars, arg, local, ret, calls, histVars, replacement>>

\* A first write whose guard is dropped before the second write.
ipv6_set_short_guard(t) ==
    /\ pc[t] = "ipv6_set"
    /\ transport_connector_lock = t
    /\ transport_connector' = TcpSslConnector_set_ipv6_enabled(transport_connector, arg[t].ipv6_enabled)
    /\ transport_connector_lock' = NoThread
    /\ pc' = [pc EXCEPT ![t] = "ipv6_write"]
    /\ UNCHANGED <<debounceVars, fire_count, connectVars,
                   epVars, fixedVars, arg, local, ret, calls, histVars, replacement>>

\* guard.set_ipv6_enabled(ipv6_enabled)
ipv6_set(t) ==
    /\ pc[t] = "ipv6_set"
    /\ transport_connector_lock = t
    /\ transport_connector' = TcpSslConnector_set_ipv6_enabled(transport_connector, arg[t].ipv6_enabled)
    /\ pc' = [pc EXCEPT ![t] = "ipv6_write"]
    /\ UNCHANGED <<transport_connector_lock, debounceVars, fire_count, connectVars,
                   epVars, fixedVars, arg, local, ret, calls, histVars, replacement>>
\* A second write that locks transport_connector again, which the call
\* itself holds.
ipv6_write_relocks(t) ==
    /\ pc[t] = "ipv6_write"
    /\ CanWrite
    /\ transport_connector_lock = NoThread
    /\ connect' = [connect EXCEPT !.allow_ipv6 = arg[t].ipv6_enabled]
    /\ transport_connector_lock' = NoThread
    /\ Return(t, NoRet)
    /\ UNCHANGED <<transport_connector, debounceVars, fire_count, connect_readers,
                   epVars, fixedVars, calls, histVars, replacement>>

\* self.connect.blocking_write().route_resolver.allow_ipv6 = ipv6_enabled,
\* after which the guard of transport_connector is dropped.
ipv6_write(t) ==
    /\ pc[t] = "ipv6_write"
    /\ CanWrite
    /\ connect' = [connect EXCEPT !.allow_ipv6 = arg[t].ipv6_enabled]
    /\ transport_connector_lock' = NoThread
    /\ Return(t, NoRet)
    /\ UNCHANGED <<transport_connector, debounceVars, fire_count, connect_readers,
                   epVars, fixedVars, calls, histVars, replacement>>

set_ipv6_enabled(t) ==
    \/ \E ipv6_enabled \in BOOLEAN : Call_set_ipv6_enabled(t, ipv6_enabled)
    \/ ipv6_lock(t)
    \/ ipv6_set(t)
    \/ ipv6_write(t)

\* ------------------------------------------ set_censorship_circumvention_enabled
Call_set_censorship_circumvention_enabled(t, enabled) ==
    Call(t, "cc_new", [enabled |-> enabled], NoLocal) /\ UNCHANGED ipv6_calls
\* A rebuild that keeps the fallback routes once they have been enabled.
cc_new_sticky(t) ==
    /\ pc[t] = "cc_new"
    /\ local' = [local EXCEPT ![t] =
          EndpointConnections_new(env, user_agent,
              arg[t].enabled \/ arcs[endpoints].enable_fronting = "OneDomainPerProxy")]
    /\ pc' = [pc EXCEPT ![t] = "cc_swap"]
    /\ UNCHANGED <<tcVars, debounceVars, fire_count, connectVars, epVars, fixedVars,
                   arg, ret, calls, histVars, replacement>>

\* let new_endpoints = EndpointConnections::new(..)
cc_new(t) ==
    /\ pc[t] = "cc_new"
    /\ local' = [local EXCEPT ![t] = EndpointConnections_new(env, user_agent, arg[t].enabled)]
    /\ pc' = [pc EXCEPT ![t] = "cc_swap"]
    /\ UNCHANGED <<tcVars, debounceVars, fire_count, connectVars, epVars, fixedVars,
                   arg, ret, calls, histVars, replacement>>
\* A swap that also fires the network change event.
cc_swap_fires(t) ==
    /\ pc[t] = "cc_swap"
    /\ arcs' = Append(arcs, local[t])
    /\ endpoints' = Len(arcs) + 1
    /\ fire_count' = Fire(fire_count)
    /\ Return(t, NoRet)
    /\ UNCHANGED <<tcVars, debounceVars, connectVars, fixedVars, calls,
                   histVars, replacement>>

\* A swap that assigns through the Arc that is installed.
cc_swap_in_place(t) ==
    /\ pc[t] = "cc_swap"
    /\ arcs' = [arcs EXCEPT ![endpoints] = local[t]]
    /\ Return(t, NoRet)
    /\ UNCHANGED <<tcVars, debounceVars, fire_count, connectVars, endpoints, fixedVars,
                   calls, histVars, replacement>>

\* *self.endpoints.lock() = Arc::new(new_endpoints)
cc_swap(t) ==
    /\ pc[t] = "cc_swap"
    /\ arcs' = Append(arcs, local[t])
    /\ endpoints' = Len(arcs) + 1
    /\ Return(t, NoRet)
    /\ UNCHANGED <<tcVars, debounceVars, fire_count, connectVars, fixedVars, calls,
                   histVars, replacement>>

set_censorship_circumvention_enabled(t) ==
    \/ \E enabled \in BOOLEAN : Call_set_censorship_circumvention_enabled(t, enabled)
    \/ cc_new(t)
    \/ cc_swap(t)

\* ------------------------------------------------------------- on_network_change
Call_on_network_change(t, now) ==
    Call(t, "onc_lock", [now |-> now], NoLocal) /\ UNCHANGED ipv6_calls

\* A lock() that does not wait for the holder of the mutex.
onc_lock_no_wait(t) ==
    /\ pc[t] = "onc_lock"
    /\ most_recent_network_change_lock' = t
    /\ pc' = [pc EXCEPT ![t] = "onc_check"]
    /\ UNCHANGED <<tcVars, most_recent_network_change, fire_count, connectVars, epVars,
                   fixedVars, arg, local, ret, calls, histVars, replacement>>

\* self.most_recent_network_change.lock()
onc_lock(t) ==
    /\ pc[t] = "onc_lock"
    /\ most_recent_network_change_lock = NoThread
    /\ most_recent_network_change_lock' = t
    /\ pc' = [pc EXCEPT ![t] = "onc_check"]
    /\ UNCHANGED <<tcVars, most_recent_network_change, fire_count, connectVars, epVars,
                   fixedVars, arg, local, ret, calls, histVars, replacement>>

\* A test that moves the baseline to `now` also when the call is debounced.
onc_check_sliding(t) ==
    /\ pc[t] = "onc_check"
    /\ IF Debounced(arg[t].now, most_recent_network_change)
       THEN /\ most_recent_network_change' = arg[t].now
            /\ most_recent_network_change_lock' = NoThread
            /\ Return(t, NoRet)
            /\ call_log' = Append(call_log, [now |-> arg[t].now, accepted |-> FALSE])
       ELSE /\ pc' = [pc EXCEPT ![t] = "onc_store"]
            /\ UNCHANGED <<most_recent_network_change, most_recent_network_change_lock,
                           arg, local, ret, call_log>>
    /\ UNCHANGED <<tcVars, fire_count, connectVars, epVars,
                   fixedVars, calls, proxyHist, ipv6_calls, replacement>>

\* The test made under the guard: return when debounced, which drops the guard.
onc_check(t) ==
    /\ pc[t] = "onc_check"
    /\ IF Debounced(arg[t].now, most_recent_network_change)
       THEN /\ most_recent_network_change_lock' = NoThread
            /\ Return(t, NoRet)
            /\ call_log' = Append(call_log, [now |-> arg[t].now, accepted |-> FALSE])
       ELSE /\ pc' = [pc EXCEPT ![t] = "onc_store"]
            /\ UNCHANGED <<most_recent_network_change_lock, arg, local, ret, call_log>>
    /\ UNCHANGED <<tcVars, most_recent_network_change, fire_count, connectVars, epVars,
                   fixedVars, calls, proxyHist, ipv6_calls, replacement>>

\* A store whose guard lives to the end of the function.
onc_store_keeps_guard(t) ==
    /\ pc[t] = "onc_store"
    /\ most_recent_network_change' = arg[t].now
    /\ pc' = [pc EXCEPT ![t] = "onc_fire"]
    /\ call_log' = Append(call_log, [now |-> arg[t].now, accepted |-> TRUE])
    /\ UNCHANGED <<tcVars, most_recent_network_change_lock, fire_count, connectVars,
                   epVars, fixedVars, arg, local, ret, calls, proxyHist, ipv6_calls,
                   replacement>>

\* *most_recent_change_guard = now, and the guard is dropped at the end of
\* the block.
onc_store(t) ==
    /\ pc[t] = "onc_store"
    /\ most_recent_network_change' = arg[t].now
    /\ most_recent_network_change_lock' = NoThread
    /\ pc' = [pc EXCEPT ![t] = "onc_fire"]
    /\ call_log' = Append(call_log, [now |-> arg[t].now, accepted |-> TRUE])
    /\ UNCHANGED <<tcVars, fire_count, connectVars, epVars, fixedVars, arg, local, ret,
                   calls, proxyHist, ipv6_calls, replacement>>

\* self.network_change_event.fire()
onc_fire(t) ==
    /\ pc[t] = "onc_fire"
    /\ fire_count' = Fire(fire_count)
    /\ pc' = [pc EXCEPT ![t] = "onc_write"]
    /\ UNCHANGED <<tcVars, debounceVars, connectVars, epVars, fixedVars, arg, local,
                   ret, calls, histVars, replacement>>

\* self.connect.blocking_write().network_changed(now.into())
onc_write(t) ==
    /\ pc[t] = "onc_write"
    /\ CanWrite
    /\ connect' = NetworkChanged(connect, arg[t].now)
    /\ Return(t, NoRet)
    /\ UNCHANGED <<tcVars, debounceVars, fire_count, connect_readers, epVars, fixedVars,
                   calls, histVars, replacement>>

\* on_network_change with its argument drawn from the instants of I.
on_network_change_at(t, I) ==
    \/ \E now \in I : Call_on_network_change(t, now)
    \/ onc_lock(t)
    \/ onc_check(t)
    \/ onc_store(t)
    \/ onc_fire(t)
    \/ onc_write(t)

\* ------------------------------------------------------------- connection attempt
\* An attempt first clones the snapshot it needs out of the manager, the
\* endpoints and then the transport connector, and then drives the connector
\* chain, which consults the route resolver under a read guard.
\*
\* What an attempt has cloned out of the manager; a field is meaningful once
\* the attempt is past the step that reads it.
NoSnapshot ==
    [endpoints |-> NoArc, transport |-> TcpSslConnector_new_direct,
     allow_ipv6 |-> TRUE, after_ipv6_call |-> FALSE, after_proxy_op |-> "none"]

Call_connect(t) == Call(t, "att_endpoints", NoArg, NoSnapshot) /\ UNCHANGED ipv6_calls

\* Clone the Arc out of self.endpoints under its mutex; this is where the
\* attempt starts reading.
att_endpoints(t) ==
    /\ pc[t] = "att_endpoints"
    /\ local' = [local EXCEPT ![t] = [@ EXCEPT !.endpoints = endpoints,
                                               !.after_ipv6_call = ipv6_calls > 0]]
    /\ pc' = [pc EXCEPT ![t] = "att_transport"]
    /\ UNCHANGED <<tcVars, debounceVars, fire_count, connectVars, epVars, fixedVars,
                   arg, ret, calls, histVars, replacement>>

\* Read the proxy setting and the IPv6 flag out of self.transport_connector
\* under its mutex; an invalid proxy ends the attempt at once with
\* ConnectError::InvalidConnectionConfiguration.
att_transport(t) ==
    /\ pc[t] = "att_transport"
    /\ transport_connector_lock = NoThread
    /\ LET r == TcpSslConnector_proxy(transport_connector)
       IN  IF r.ok
           THEN /\ local' = [local EXCEPT ![t] =
                       [@ EXCEPT !.transport = transport_connector,
                                 !.after_proxy_op = last_proxy_op]]
                /\ pc' = [pc EXCEPT ![t] = "att_read"]
                /\ UNCHANGED <<arg, ret>>
           ELSE Return(t, [op |-> "connect",
                           result |-> "InvalidConnectionConfiguration",
                           transport_operations |-> 0,
                           after_proxy_op |-> last_proxy_op])
    /\ UNCHANGED <<tcVars, debounceVars, fire_count, connectVars, epVars, fixedVars,
                   calls, histVars, replacement>>

\* self.connect.read()
att_read(t) ==
    /\ pc[t] = "att_read"
    /\ connect_readers' = connect_readers \cup {t}
    /\ pc' = [pc EXCEPT ![t] = "att_reading"]
    /\ UNCHANGED <<tcVars, debounceVars, fire_count, connect, epVars, fixedVars,
                   arg, local, ret, calls, histVars, replacement>>

\* Read the route resolver under the read guard and drop the guard.
att_reading(t) ==
    /\ pc[t] = "att_reading"
    /\ connect_readers' = connect_readers \ {t}
    /\ local' = [local EXCEPT ![t] = [@ EXCEPT !.allow_ipv6 = connect.allow_ipv6]]
    /\ pc' = [pc EXCEPT ![t] = "att_connect"]
    /\ UNCHANGED <<tcVars, debounceVars, fire_count, connect, epVars, fixedVars,
                   arg, ret, calls, histVars, replacement>>

\* The transport connector is invoked, and connects or fails.
att_connect(t) ==
    /\ pc[t] = "att_connect"
    /\ \E outcome \in {"Connected", "ConnectError"} :
          Return(t, [op |-> "connect",
                     result |-> outcome,
                     transport_operations |-> 1,
                     after_proxy_op |-> local[t].after_proxy_op])
    /\ UNCHANGED <<tcVars, debounceVars, fire_count, connectVars, epVars, fixedVars,
                   calls, histVars, replacement>>

connect_attempt(t) ==
    \/ Call_connect(t)
    \/ att_endpoints(t)
    \/ att_transport(t)
    \/ att_read(t)
    \/ att_reading(t)
    \/ att_connect(t)

\* ------------------------------------------------------------- replace_with_fake
StatelessDirect == [kind |-> "StatelessDirect"]
StatelessProxied == [kind |-> "StatelessProxied"]
FakeTransportConnector == [kind |-> "FakeTransportConnector"]
ComposedConnector_new(outer, inner) ==
    [kind |-> "ComposedConnector", outer |-> outer, inner |-> inner]
DirectOrProxy_new(direct, proxy) ==
    [kind |-> "DirectOrProxy", direct |-> direct, proxy |-> proxy]
ThrottlingConnector_new(inner) == [kind |-> "ThrottlingConnector", inner |-> inner]

\* The connector chains built with exactly n wrappers.
RECURSIVE ChainsOfSize(_)
ChainsOfSize(n) ==
    IF n = 0 THEN {StatelessDirect, StatelessProxied}
    ELSE {ThrottlingConnector_new(c) : c \in ChainsOfSize(n - 1)}
           \cup UNION {{ComposedConnector_new(a, b) :
                            a \in ChainsOfSize(k), b \in ChainsOfSize(n - 1 - k)} :
                       k \in 0..(n - 1)}
           \cup UNION {{DirectOrProxy_new(a, b) :
                            a \in ChainsOfSize(k), b \in ChainsOfSize(n - 1 - k)} :
                       k \in 0..(n - 1)}

\* The connector chains built with at most MaxWrappers wrappers.
Chains == UNION {ChainsOfSize(n) : n \in 0..MaxWrappers}

\* ThrottlingConnector::replace_connector: the same throttle around `inner`.
ThrottlingConnector_replace_connector(c, inner) == [c EXCEPT !.inner = inner]

\* A substitution that does not recurse into DirectOrProxy.
RECURSIVE ReplaceWithFake_flat(_, _)
ReplaceWithFake_flat(c, fake) ==
    CASE c.kind = "ComposedConnector" ->
            ComposedConnector_new(ReplaceWithFake_flat(c.outer, fake),
                                  ReplaceWithFake_flat(c.inner, fake))
      [] c.kind = "DirectOrProxy" -> fake
      [] c.kind = "StatelessProxied" -> fake
      [] c.kind = "StatelessDirect" -> fake
      [] c.kind = "ThrottlingConnector" -> ThrottlingConnector_replace_connector(c, fake)

\* A substitution whose DirectOrProxy is rebuilt with its two connectors
\* exchanged.
RECURSIVE ReplaceWithFake_exchanged(_, _)
ReplaceWithFake_exchanged(c, fake) ==
    CASE c.kind = "ComposedConnector" ->
            ComposedConnector_new(ReplaceWithFake_exchanged(c.outer, fake),
                                  ReplaceWithFake_exchanged(c.inner, fake))
      [] c.kind = "DirectOrProxy" ->
            DirectOrProxy_new(ReplaceWithFake_exchanged(c.proxy, fake),
                              ReplaceWithFake_exchanged(c.direct, fake))
      [] c.kind = "StatelessProxied" -> fake
      [] c.kind = "StatelessDirect" -> fake
      [] c.kind = "ThrottlingConnector" -> ThrottlingConnector_replace_connector(c, fake)

\* ReplaceStatelessConnectorsWithFake::replace_with_fake, by the impl of
\* each connector type; fake.clone() is the fake.
RECURSIVE ReplaceWithFake(_, _)
ReplaceWithFake(c, fake) ==
    CASE c.kind = "ComposedConnector" ->
            ComposedConnector_new(ReplaceWithFake(c.outer, fake),
                                  ReplaceWithFake(c.inner, fake))
      [] c.kind = "DirectOrProxy" ->
            DirectOrProxy_new(ReplaceWithFake(c.direct, fake),
                              ReplaceWithFake(c.proxy, fake))
      [] c.kind = "StatelessProxied" -> fake
      [] c.kind = "StatelessDirect" -> fake
      [] c.kind = "ThrottlingConnector" -> ThrottlingConnector_replace_connector(c, fake)

\* chain.replace_with_fake(fake)
replace_with_fake ==
    /\ chain # NoChain
    /\ replacement = NoChain
    /\ replacement' = ReplaceWithFake(chain, FakeTransportConnector)
    /\ UNCHANGED <<tcVars, debounceVars, fire_count, connectVars, epVars, fixedVars,
                   pc, arg, local, ret, calls, histVars>>

\* ------------------------------------------------------------- specifications
\* Every operation of the manager, and connection attempts.
Next ==
    \E t \in Threads :
        \/ set_proxy(t)
        \/ set_invalid_proxy(t)
        \/ clear_proxy(t)
        \/ is_using_proxy(t)
        \/ set_ipv6_enabled(t)
        \/ set_censorship_circumvention_enabled(t)
        \/ on_network_change_at(t, {0, MaxTime})
        \/ connect_attempt(t)

Spec == Init /\ [][Next]_vars

\* The steps thread t takes inside a call: everything but the call itself.
Proceeds(t) ==
    \/ set_proxy_lock(t) \/ set_proxy_body(t)
    \/ set_invalid_proxy_lock(t) \/ set_invalid_proxy_body(t)
    \/ clear_proxy_lock(t) \/ clear_proxy_body(t)
    \/ is_using_proxy_lock(t) \/ is_using_proxy_body(t)
    \/ ipv6_lock(t) \/ ipv6_set(t) \/ ipv6_write(t)
    \/ cc_new(t) \/ cc_swap(t)
    \/ onc_lock(t) \/ onc_check(t) \/ onc_store(t) \/ onc_fire(t) \/ onc_write(t)
    \/ att_endpoints(t) \/ att_transport(t) \/ att_read(t) \/ att_reading(t)
    \/ att_connect(t)

\* Every operation of the manager and connection attempts, as in Next, with
\* at most MaxScheduledCalls calls made.
NextScheduled ==
    \E t \in Threads :
        \/ /\ calls < MaxScheduledCalls
           /\ \/ \E proxy \in ProxyConfigs : Call_set_proxy(t, proxy)
              \/ Call_set_invalid_proxy(t)
              \/ Call_clear_proxy(t)
              \/ Call_is_using_proxy(t)
              \/ \E ipv6_enabled \in BOOLEAN : Call_set_ipv6_enabled(t, ipv6_enabled)
              \/ \E enabled \in BOOLEAN :
                    Call_set_censorship_circumvention_enabled(t, enabled)
              \/ \E now \in {0, MaxTime} : Call_on_network_change(t, now)
              \/ Call_connect(t)
        \/ Proceeds(t)

\* Each thread is scheduled again and again for as long as it can take a
\* step.
SpecScheduled == Init /\ [][NextScheduled]_vars /\ \A t \in Threads : WF_pc(Proceeds(t))

\* set_censorship_circumvention_enabled, and connection attempts, for any Env.
NextEndpoints ==
    \E t \in Threads : set_censorship_circumvention_enabled(t) \/ connect_attempt(t)

InitEndpoints == InitManager(Environments, {0}) /\ NoSubstitution

SpecEndpoints == InitEndpoints /\ [][NextEndpoints]_vars

\* A manager constructed for any Env, its proxy setting set and queried and
\* its endpoints rebuilt.
NextConstruction ==
    \E t \in Threads :
        \/ is_using_proxy(t)
        \/ set_proxy(t)
        \/ set_censorship_circumvention_enabled(t)

SpecConstruction == InitEndpoints /\ [][NextConstruction]_vars

\* replace_with_fake on any connector chain.
InitReplace ==
    /\ InitManager({STAGING}, {0})
    /\ chain \in Chains
    /\ replacement = NoChain

SpecReplace == InitReplace /\ [][replace_with_fake]_vars

\* on_network_change alone.
NextNetworkChange == \E t \in Threads : on_network_change_at(t, Instants)

InitNetworkChange == InitManager({STAGING}, 0..MaxConstructedAt) /\ NoSubstitution

SpecNetworkChange == InitNetworkChange /\ [][NextNetworkChange]_vars

\* ================================================================ properties

\* ------------------------------------------------------------- debounce
\* The greedy rule over the times of the calls in order: a call is accepted
\* iff its time minus the baseline is at least the debounce interval, and an
\* accepted call becomes the baseline.
RECURSIVE Greedy(_, _)
Greedy(nows, baseline) ==
    IF nows = <<>> THEN <<>>
    ELSE IF Head(nows) - baseline >= NETWORK_CHANGE_DEBOUNCE
         THEN <<TRUE>> \o Greedy(Tail(nows), Head(nows))
         ELSE <<FALSE>> \o Greedy(Tail(nows), baseline)

LoggedNows == [i \in DOMAIN call_log |-> call_log[i].now]
AcceptedCalls == {i \in DOMAIN call_log : call_log[i].accepted}

\* The baseline the i-th logged call was compared with.
BaselineOf(i) ==
    LET before == {j \in AcceptedCalls : j < i}
    IN  IF before = {} THEN constructed_at
        ELSE call_log[CHOOSE j \in before : \A k \in before : k <= j].now

\* No accepted on_network_change call is still to notify or to write.
NoChangeInFlight == \A t \in Threads : pc[t] \notin {"onc_store", "onc_fire", "onc_write"}

\* C1: the calls accepted are those the greedy rule accepts (so a call exactly
\* one debounce interval after the baseline is accepted), and once the
\* accepted calls have run the subscriber has been notified once for each.
C1_NotificationsFollowGreedyRule ==
    LET greedy == Greedy(LoggedNows, constructed_at)
    IN  /\ \A i \in DOMAIN call_log : call_log[i].accepted = greedy[i]
        /\ NoChangeInFlight =>
              fire_count = Cardinality({i \in DOMAIN greedy : greedy[i]})

\* Three calls have returned: one exactly one interval after its baseline,
\* which was accepted, and one that was suppressed.
C1_Witness ==
    /\ \A t \in Threads : pc[t] = "idle"
    /\ Len(call_log) = 3
    /\ fire_count = 2
    /\ \E i \in AcceptedCalls : call_log[i].now = BaselineOf(i) + NETWORK_CHANGE_DEBOUNCE
    /\ \E i \in DOMAIN call_log : ~call_log[i].accepted

\* C2: any two accepted changes are at least the debounce interval apart, and
\* the stored timestamp never decreases.
C2_AcceptedApartAndMonotonic ==
    [][/\ most_recent_network_change' >= most_recent_network_change
       /\ \A i, j \in DOMAIN call_log' :
             (i < j /\ call_log'[i].accepted /\ call_log'[j].accepted) =>
                call_log'[j].now - call_log'[i].now >= NETWORK_CHANGE_DEBOUNCE]_vars

\* Two threads are inside on_network_change at once, both with an accepted
\* change, and a call between the two was suppressed.
C2_Witness ==
    /\ \E i, j \in AcceptedCalls : j > i + 1
    /\ \E t, u \in Threads : pc[t] = "onc_write" /\ pc[u] = "onc_fire"

\* C3: every step of a call that is suppressed (its time is less than one
\* interval after the baseline, or earlier than the baseline) leaves the
\* debounce timestamp, the notification count and the ConnectState alone,
\* and the call returns from its test.
C3_SuppressedCallIsNoOp ==
    [][\A t \in Threads :
          LET enters == pc'[t] # pc[t] /\ pc'[t] \in {"onc_lock", "onc_check"}
              suppressed == /\ pc[t] = "onc_check" /\ pc'[t] # "onc_check"
                            /\ arg[t].now - most_recent_network_change < NETWORK_CHANGE_DEBOUNCE
          IN  /\ suppressed => pc'[t] = "idle"
              /\ (enters \/ suppressed) =>
                    /\ most_recent_network_change' = most_recent_network_change
                    /\ fire_count' = fire_count
                    /\ connect' = connect]_vars

\* A call earlier than the baseline and a call less than one interval after
\* it have both been suppressed, after a change that was accepted and written.
C3_Witness ==
    /\ \A t \in Threads : pc[t] = "idle"
    /\ Len(call_log) = 3
    /\ call_log[1].accepted /\ ~call_log[2].accepted /\ ~call_log[3].accepted
    /\ call_log[2].now < call_log[1].now
    /\ call_log[3].now > call_log[1].now
    /\ fire_count = 1
    /\ connect.network_change_clock = call_log[1].now
    /\ most_recent_network_change = call_log[1].now

\* ------------------------------------------------------------- proxy setting
\* C4: what is_using_proxy returns reflects the proxy operation that ran
\* last: Ok(true) after set_proxy, Ok(false) after clear_proxy or after none,
\* and the configuration error after set_invalid_proxy.
C4_IsUsingProxyReflectsLastProxyOp ==
    \A t \in Threads :
        ret[t].op = "is_using_proxy" =>
            LET r == ret[t].result
            IN  CASE ret[t].after = "set_proxy" -> r.ok /\ r.value = TRUE
                  [] ret[t].after \in {"clear_proxy", "none"} -> r.ok /\ r.value = FALSE
                  [] ret[t].after = "set_invalid_proxy" ->
                        ~r.ok /\ r.value = "InvalidProxyConfig"

\* is_using_proxy has returned the configuration error after
\* set_invalid_proxy, with a set_ipv6_enabled(false) in between.
C4_Witness ==
    /\ \E t \in Threads :
          /\ ret[t].op = "is_using_proxy"
          /\ ret[t].after = "set_invalid_proxy"
          /\ ~ret[t].result.ok
    /\ ~transport_connector.ipv6_enabled
    /\ ~connect.allow_ipv6

RunsBody(t, ops) == \E op \in ops : pc[t] = op /\ pc'[t] = "idle"

\* C6: the proxy setting is changed only by the bodies of set_proxy,
\* clear_proxy and set_invalid_proxy (so not by set_ipv6_enabled,
\* set_censorship_circumvention_enabled, on_network_change, is_using_proxy or
\* an attempt); Invalid is left only by set_proxy and clear_proxy; and from
\* whatever setting, set_proxy leads to ProxyConfigured, clear_proxy to Direct
\* and set_invalid_proxy to Invalid, none of them ever being refused.
C6_ProxySettingFrameAndTransitions ==
    [][/\ (transport_connector'.proxy # transport_connector.proxy
             \/ transport_connector'.config # transport_connector.config) =>
            \E t \in Threads :
                RunsBody(t, {"set_proxy_body", "clear_proxy_body", "set_invalid_proxy_body"})
       /\ (transport_connector.proxy = "Invalid" /\ transport_connector'.proxy # "Invalid") =>
            \E t \in Threads : RunsBody(t, {"set_proxy_body", "clear_proxy_body"})
       /\ \A t \in Threads :
            /\ RunsBody(t, {"set_proxy_body"}) =>
                  /\ transport_connector'.proxy = "Proxied"
                  /\ transport_connector'.config = arg[t].proxy
            /\ RunsBody(t, {"clear_proxy_body"}) => transport_connector'.proxy = "Direct"
            /\ RunsBody(t, {"set_invalid_proxy_body"}) => transport_connector'.proxy = "Invalid"
            /\ pc[t] = "set_proxy_body" => ENABLED set_proxy_body(t)
            /\ pc[t] = "clear_proxy_body" => ENABLED clear_proxy_body(t)
            /\ pc[t] = "set_invalid_proxy_body" => ENABLED set_invalid_proxy_body(t)]_vars

\* The setting was Invalid through a set_ipv6_enabled(false) and has then
\* been replaced by set_proxy.
C6_Witness ==
    /\ last_proxy_step = <<"Invalid", "Proxied">>
    /\ transport_connector.proxy = "Proxied"
    /\ ~transport_connector.ipv6_enabled
    /\ \A t \in Threads : pc[t] = "idle"

RunsCensorshipCircumvention(t) ==
    pc'[t] # pc[t] /\ (pc'[t] \in {"cc_new", "cc_swap"} \/ pc[t] = "cc_swap")

\* C8: no step of set_censorship_circumvention_enabled changes the debounce
\* timestamp, the notification count, the ConnectState or the transport
\* connector; its last step installs a new Arc and leaves every set built
\* before as it was.
C8_CensorshipCircumventionIsNoNetworkChange ==
    [][\A t \in Threads :
          RunsCensorshipCircumvention(t) =>
              /\ UNCHANGED <<most_recent_network_change, most_recent_network_change_lock,
                             fire_count, connect, connect_readers,
                             transport_connector, transport_connector_lock>>
              /\ \A a \in DOMAIN arcs : arcs'[a] = arcs[a]
              /\ pc[t] # "cc_swap" => UNCHANGED <<endpoints, arcs>>
              /\ pc[t] = "cc_swap" =>
                    /\ endpoints' \notin DOMAIN arcs
                    /\ arcs'[endpoints'] = local[t]]_vars

\* Fallbacks were enabled after a network change that was accepted and
\* written and after set_ipv6_enabled(false).
C8_Witness ==
    /\ endpoints = 2
    /\ arcs[endpoints].enable_fronting = "OneDomainPerProxy"
    /\ fire_count = 1
    /\ connect.network_change_clock = MaxTime
    /\ ~connect.allow_ipv6
    /\ \A t \in Threads : pc[t] = "idle"

\* The set was built whole from fallback flag f for the manager's Env.
BuiltFrom(set, f) ==
    /\ Len(set.chat) = (IF f THEN env.chat_fallbacks + 1 ELSE 1)
    /\ Len(set.cdsi) = (IF f THEN env.cdsi_fallbacks + 1 ELSE 1)
    /\ \A i \in DOMAIN set.chat :
          set.chat[i] = [service |-> "chat", route |-> i - 1, user_agent |-> user_agent]
    /\ \A i \in DOMAIN set.cdsi :
          set.cdsi[i] = [service |-> "cdsi", route |-> i - 1, user_agent |-> user_agent]
    /\ set.enable_fronting = (IF f THEN "OneDomainPerProxy" ELSE "No")

\* Thread t is in an attempt that holds a snapshot of the endpoints.
HoldsEndpoints(t) == pc[t] \in {"att_transport", "att_read", "att_reading", "att_connect"}

\* C9: the set an attempt holds was built whole from one fallback flag, and
\* no step changes it while the attempt holds it.
C9_SnapshotIsOneCompleteSet ==
    [][\A t \in Threads :
          HoldsEndpoints(t) =>
              /\ \E f \in BOOLEAN : BuiltFrom(arcs[local[t].endpoints], f)
              /\ arcs'[local[t].endpoints] = arcs[local[t].endpoints]]_vars

\* An attempt holds the set built without fallbacks while a set with
\* fallbacks, which has more routes, is installed and a third is being
\* built.
C9_Witness ==
    \E t, u \in Threads :
        /\ HoldsEndpoints(t)
        /\ local[t].endpoints = 1
        /\ endpoints = 2
        /\ Len(arcs[2].cdsi) > Len(arcs[1].cdsi)
        /\ pc[u] = "cc_swap"

\* ------------------------------------------------------------- substitution
Terminals == {"StatelessDirect", "StatelessProxied", "FakeTransportConnector"}

\* The wrapper nesting of a chain: the chain with its terminals made alike.
RECURSIVE Nesting(_)
Nesting(c) ==
    CASE c.kind \in Terminals -> <<"terminal">>
      [] c.kind = "ThrottlingConnector" -> <<"ThrottlingConnector", Nesting(c.inner)>>
      [] c.kind = "ComposedConnector" ->
            <<"ComposedConnector", Nesting(c.outer), Nesting(c.inner)>>
      [] c.kind = "DirectOrProxy" ->
            <<"DirectOrProxy", Nesting(c.direct), Nesting(c.proxy)>>

\* The nesting of a chain down to its throttles: what a throttle wraps counts
\* as a terminal.
RECURSIVE NestingToThrottles(_)
NestingToThrottles(c) ==
    CASE c.kind \in Terminals -> <<"terminal">>
      [] c.kind = "ThrottlingConnector" -> <<"ThrottlingConnector", <<"terminal">>>>
      [] c.kind = "ComposedConnector" ->
            <<"ComposedConnector", NestingToThrottles(c.outer), NestingToThrottles(c.inner)>>
      [] c.kind = "DirectOrProxy" ->
            <<"DirectOrProxy", NestingToThrottles(c.direct), NestingToThrottles(c.proxy)>>

\* Every throttle of the chain wraps a terminal connector.
RECURSIVE ThrottlesWrapTerminals(_)
ThrottlesWrapTerminals(c) ==
    CASE c.kind \in Terminals -> TRUE
      [] c.kind = "ThrottlingConnector" -> c.inner.kind \in Terminals
      [] c.kind = "ComposedConnector" ->
            ThrottlesWrapTerminals(c.outer) /\ ThrottlesWrapTerminals(c.inner)
      [] c.kind = "DirectOrProxy" ->
            ThrottlesWrapTerminals(c.direct) /\ ThrottlesWrapTerminals(c.proxy)

\* C10 as stated: the result of replace_with_fake has the wrapper nesting of
\* the chain.
C10_NestingPreserved ==
    replacement # NoChain => Nesting(replacement) = Nesting(chain)

\* C10 as amended: the result has the nesting of the chain down to its
\* throttles, each of which wraps the fake itself; so it has the nesting of
\* the chain exactly when every throttle of the chain wraps a terminal.
C10_NestingPreservedToThrottles ==
    replacement # NoChain =>
        /\ Nesting(replacement) = NestingToThrottles(chain)
        /\ (Nesting(replacement) = Nesting(chain)) <=> ThrottlesWrapTerminals(chain)

\* Composed(Throttling(DirectOrProxy(direct, proxy)), direct) has been
\* substituted: the throttle is kept and wraps the fake itself.
C10_Witness ==
    /\ chain = ComposedConnector_new(
                   ThrottlingConnector_new(DirectOrProxy_new(StatelessDirect,
                                                             StatelessProxied)),
                   StatelessDirect)
    /\ replacement = ComposedConnector_new(ThrottlingConnector_new(FakeTransportConnector),
                                           FakeTransportConnector)

\* ------------------------------------------------------------- toggling
\* The number of connection-parameter variants of each service, and the
\* fronting mode.
RouteCounts(set) ==
    [chat |-> Len(set.chat), cdsi |-> Len(set.cdsi), enable_fronting |-> set.enable_fronting]

\* A step in which thread t installs the set its call has built.
Installs(t) == pc[t] = "cc_swap" /\ pc'[t] = "idle"

\* C11: the set a set_censorship_circumvention_enabled call installs depends
\* only on the flag of that call, whatever was installed before: it is the
\* set built whole from that flag, and a call with the flag off brings back
\* the route count of each service and the fronting mode the manager was
\* constructed with.
C11_InstalledSetDependsOnLastFlag ==
    [][\A t \in Threads :
          Installs(t) =>
              /\ BuiltFrom(arcs'[endpoints'], arg[t].enabled)
              /\ ~arg[t].enabled => RouteCounts(arcs'[endpoints']) = RouteCounts(arcs[1])]_vars

\* The fallbacks were enabled and disabled again, for an Env that defines
\* fallback routes: the set with fallbacks had more routes, and the set
\* installed now is the one the manager was constructed with.
C11_Witness ==
    /\ Len(arcs) >= 3
    /\ endpoints = 3
    /\ arcs[2].enable_fronting = "OneDomainPerProxy"
    /\ Len(arcs[2].chat) > Len(arcs[1].chat)
    /\ Len(arcs[2].cdsi) > Len(arcs[1].cdsi)
    /\ RouteCounts(arcs[3]) = RouteCounts(arcs[1])
    /\ arcs[3] = arcs[1]

\* ------------------------------------------------------------- construction
\* The services of an EndpointConnections, with the fallback routes the Env
\* defines for each.
Services == {"chat", "cdsi"}
FallbacksOf(service) == IF service = "chat" THEN env.chat_fallbacks ELSE env.cdsi_fallbacks
VariantsOf(set, service) == IF service = "chat" THEN Len(set.chat) ELSE Len(set.cdsi)

\* C12: until a proxy operation has run, the manager is in the Direct state
\* and is_using_proxy returns Ok(false); the set the manager was constructed
\* with has exactly one variant per service and fronting mode No; and a set
\* a call has built has fronting mode OneDomainPerProxy iff the call's flag
\* is on, one variant per service when it is off, and more than one for
\* every service for which the Env defines fallback routes when it is on.
C12_ConstructedDirectWithoutFallbacks ==
    /\ last_proxy_op = "none" => transport_connector.proxy = "Direct"
    /\ \A t \in Threads :
          (ret[t].op = "is_using_proxy" /\ ret[t].after = "none") =>
              ret[t].result = [ok |-> TRUE, value |-> FALSE]
    /\ \A service \in Services : VariantsOf(arcs[1], service) = 1
    /\ arcs[1].enable_fronting = "No"
    /\ \A t \in Threads :
          pc[t] = "cc_swap" =>
              /\ local[t].enable_fronting = "OneDomainPerProxy" <=> arg[t].enabled
              /\ \A service \in Services :
                    /\ ~arg[t].enabled => VariantsOf(local[t], service) = 1
                    /\ (arg[t].enabled /\ FallbacksOf(service) > 0) =>
                          VariantsOf(local[t], service) > 1

\* is_using_proxy has returned Ok(false) on the manager as constructed, which
\* still holds its first set, while a call has built a set with fallbacks
\* for an Env that defines fallback routes for one service only.
C12_Witness ==
    /\ last_proxy_op = "none"
    /\ endpoints = 1
    /\ env.chat_fallbacks = 0 /\ env.cdsi_fallbacks > 0
    /\ \E t, u \in Threads :
          /\ ret[t].op = "is_using_proxy" /\ ret[t].result = [ok |-> TRUE, value |-> FALSE]
          /\ pc[u] = "cc_swap" /\ arg[u].enabled
          /\ VariantsOf(local[u], "cdsi") > 1
          /\ VariantsOf(local[u], "chat") = 1

\* ------------------------------------------------------------- order of effects
\* Thread t has an accepted change whose notification is still to come.
ToNotify(t) == pc[t] = "onc_fire"
\* Thread t has an accepted change whose change-clock update is still to come.
ToUpdate(t) == pc[t] \in {"onc_fire", "onc_write"}

\* C13: accepted changes take effect in the order of their timestamps: a
\* call notifies only when no accepted call with an earlier timestamp is still
\* to notify, and updates the change-clock only when none with an earlier
\* timestamp is still to update it; the change-clock never moves backwards,
\* and once all calls have returned it is the latest accepted timestamp.
C13_EffectsInTimestampOrder ==
    [][/\ \A t \in Threads :
             /\ (pc[t] = "onc_fire" /\ pc'[t] = "onc_write") =>
                    \A u \in Threads \ {t} : ToNotify(u) => arg[u].now > arg[t].now
             /\ (pc[t] = "onc_write" /\ pc'[t] = "idle") =>
                    \A u \in Threads \ {t} : ToUpdate(u) => arg[u].now > arg[t].now
       /\ connect'.network_change_clock >= connect.network_change_clock
       /\ ((\A t \in Threads : pc'[t] = "idle") /\ AcceptedCalls' # {}) =>
             connect'.network_change_clock = most_recent_network_change']_vars

\* ------------------------------------------------------------- lock scopes
\* Thread t is at a statement that acquires the write lock of the
\* ConnectState, and has to wait for it.
WaitsForConnectWrite(t) == pc[t] \in {"ipv6_write", "onc_write"} /\ ~CanWrite

\* C14: no thread holds the lock of the transport connector while it waits
\* for the write lock of the ConnectState, so that whoever waits for the
\* lock of the transport connector, a proxy operation for one, does not wait
\* for the ConnectState to be released.
C14_TransportLockNotHeldWhileWaiting ==
    \A t \in Threads : transport_connector_lock = t => ~WaitsForConnectWrite(t)

\* ------------------------------------------------------------- steps of a change
\* Thread t takes a step from `from`.
StepsFrom(t, from) == pc[t] = from /\ pc'[t] # from

\* C15: an accepted on_network_change(now) call first sets the baseline to
\* now and releases the debounce lock, then notifies the subscribers once,
\* then updates the change-clock with now and returns; each of the three
\* steps does its own effect only, and the call does not hold the debounce
\* lock at its notification or at its change-clock update.
C15_AcceptedCallStepsInOrder ==
    [][\A t \in Threads :
          /\ StepsFrom(t, "onc_store") =>
                /\ most_recent_network_change' = arg[t].now
                /\ most_recent_network_change_lock = t
                /\ most_recent_network_change_lock' = NoThread
                /\ pc'[t] = "onc_fire"
                /\ UNCHANGED <<fire_count, connect>>
          /\ StepsFrom(t, "onc_fire") =>
                /\ most_recent_network_change_lock # t
                /\ fire_count' = fire_count + 1
                /\ pc'[t] = "onc_write"
                /\ UNCHANGED <<debounceVars, connect>>
          /\ StepsFrom(t, "onc_write") =>
                /\ most_recent_network_change_lock # t
                /\ connect'.network_change_clock = arg[t].now
                /\ pc'[t] = "idle"
                /\ UNCHANGED <<debounceVars, fire_count>>]_vars

\* An accepted call has stored its time and is about to notify, while
\* another call holds the debounce lock and makes its test.
C15_Witness ==
    \E t, u \in Threads :
        /\ pc[t] = "onc_fire"
        /\ most_recent_network_change = arg[t].now
        /\ fire_count = 0
        /\ connect.network_change_clock = NoInstant
        /\ pc[u] = "onc_check"
        /\ most_recent_network_change_lock = u

\* ------------------------------------------------------------- positions
\* A position in a chain is the path of fields that leads to it.
Fields == {"outer", "inner", "direct", "proxy"}
Positions == UNION {[1..n -> Fields] : n \in 0..MaxWrappers}

\* The connector at position p of chain c, or NoChain when c has none there.
RECURSIVE At(_, _)
At(c, p) ==
    IF p = <<>> THEN c
    ELSE IF Head(p) \in DOMAIN c THEN At(c[Head(p)], Tail(p))
    ELSE NoChain

RealTerminals == {"StatelessDirect", "StatelessProxied"}
TwoChildWrappers == {"ComposedConnector", "DirectOrProxy"}

\* Position p of the chain lies under one of the chain's throttles.
UnderThrottle(p) ==
    \E n \in 0..(Len(p) - 1) : At(chain, SubSeq(p, 1, n)).kind = "ThrottlingConnector"

\* C16: in the result of replace_with_fake no position holds a real terminal
\* connector and every terminal position holds the fake, which stands where
\* the chain had a terminal or where a throttle kept its connector; every
\* wrapper of the result stands where the chain has a wrapper of the same
\* type, and every Composed and DirectOrProxy the substitution reaches is
\* found at its position in the result, so outer stays outer, inner stays
\* inner, direct stays direct and proxy stays proxy.
C16_NoRealTerminalAndChildrenInPlace ==
    replacement # NoChain =>
        \A p \in Positions :
            LET r == At(replacement, p)
                c == At(chain, p)
            IN  /\ r.kind \notin RealTerminals
                /\ r.kind \in Terminals =>
                      /\ r = FakeTransportConnector
                      /\ c.kind \in RealTerminals \/ UnderThrottle(p)
                /\ r.kind \in TwoChildWrappers \cup {"ThrottlingConnector"} =>
                      c.kind = r.kind
                /\ (c.kind \in RealTerminals /\ ~UnderThrottle(p)) =>
                      r = FakeTransportConnector
                /\ (c.kind \in TwoChildWrappers /\ ~UnderThrottle(p)) =>
                      r.kind = c.kind

\* DirectOrProxy(Throttling(direct), Composed(proxy, direct)) has been
\* substituted: the throttle is still on the direct side and the Composed on
\* the proxy side, and every terminal is the fake.
C16_Witness ==
    /\ chain = DirectOrProxy_new(ThrottlingConnector_new(StatelessDirect),
                                 ComposedConnector_new(StatelessProxied, StatelessDirect))
    /\ replacement =
          DirectOrProxy_new(ThrottlingConnector_new(FakeTransportConnector),
                            ComposedConnector_new(FakeTransportConnector,
                                                  FakeTransportConnector))

\* ------------------------------------------------------------- concurrent IPv6 calls
\* Thread t is inside set_ipv6_enabled and holds the lock of the transport
\* connector.
SetsIpv6(t) == pc[t] \in {"ipv6_set", "ipv6_write"} /\ transport_connector_lock = t

Ipv6Values == <<transport_connector.ipv6_enabled, connect.allow_ipv6>>

\* C17: a set_ipv6_enabled call returns with both IPv6 values equal to its
\* argument; the values are changed only by the call that holds the lock of
\* the transport connector, which is the one that acquired it last; so
\* whenever no call is between its lock and its return, and so once all
\* calls have returned, the two values are equal, and equal to the argument
\* of the call that acquired the lock last.
C17_LastLockerSetsBothIpv6Values ==
    [][/\ \A t \in Threads :
             StepsFrom(t, "ipv6_write") =>
                 /\ SetsIpv6(t)
                 /\ Ipv6Values' = <<arg[t].ipv6_enabled, arg[t].ipv6_enabled>>
       /\ Ipv6Values' # Ipv6Values =>
             \E t \in Threads : SetsIpv6(t) /\ pc'[t] # pc[t]
       /\ (\A t \in Threads : pc'[t] \notin {"ipv6_set", "ipv6_write"}) =>
             transport_connector'.ipv6_enabled = connect'.allow_ipv6]_vars

\* Three set_ipv6_enabled calls have been made on two threads and have all
\* returned, the last holder of the lock having been called with false.
C17_Witness ==
    /\ ipv6_calls = 3
    /\ \A t \in Threads : pc[t] = "idle"
    /\ Ipv6Values = <<FALSE, FALSE>>

\* ------------------------------------------------------------- termination
\* C18: every call returns: a thread that is inside an operation of the
\* manager, or inside a connection attempt, is eventually outside again.
C18_EveryCallReturns ==
    \A t \in Threads : (pc[t] # "idle") ~> (pc[t] = "idle")

\* The last call that can be made is a set_ipv6_enabled call that holds the
\* lock of the transport connector and waits for the write lock of the
\* ConnectState, of which an attempt holds a read guard.
C18_Witness ==
    \E t, u \in Threads :
        /\ calls = MaxScheduledCalls
        /\ pc[t] = "ipv6_write" /\ transport_connector_lock = t
        /\ ~CanWrite
        /\ u \in connect_readers

\* ------------------------------------------------------------- first change
\* C19: until a change has been accepted the debounce baseline is the
\* instant of construction, and nothing has been notified or written; the
\* first on_network_change(now) call to make its test is suppressed when now
\* is less than one debounce interval after construction, and accepted
\* otherwise.
C19_FirstCallComparedWithConstruction ==
    /\ AcceptedCalls = {} =>
          /\ most_recent_network_change = constructed_at
          /\ fire_count = 0
          /\ connect.network_change_clock = NoInstant
    /\ call_log # <<>> =>
          (call_log[1].accepted <=>
              call_log[1].now - constructed_at >= NETWORK_CHANGE_DEBOUNCE)

\* A manager constructed after the start of the clock: its first change,
\* one tick short of a debounce interval after construction, was suppressed,
\* and a change exactly one interval after construction was then accepted.
C19_Witness ==
    /\ constructed_at = MaxConstructedAt
    /\ constructed_at > 0
    /\ Len(call_log) = 2
    /\ call_log[1] = [now |-> constructed_at + NETWORK_CHANGE_DEBOUNCE - 1,
                      accepted |-> FALSE]
    /\ call_log[2] = [now |-> constructed_at + NETWORK_CHANGE_DEBOUNCE,
                      accepted |-> TRUE]
    /\ \A t \in Threads : pc[t] = "idle"
    /\ fire_count = 1

====
